---- MODULE Spec2Model ----
(***************************************************************************)
(* Work coordinator of cf-multiworker-boilerplate: the CoordinatorDo       *)
(* durable object (persisted work list, dispatch in direct and queue mode, *)
(* result reconciliation), the ProcessorDo it calls, and the queue         *)
(* consumer (regular queue and dead-letter queue) that reports back.       *)
(*                                                                         *)
(* Execution model.  Every `await` of the source is a suspension point.    *)
(* A handler is cut into the segments between its awaits.  The platform    *)
(* delivers no event (a request, the response of a Processor call or of a  *)
(* queue send) to an instance while one of its storage operations is       *)
(* pending; continuations of storage operations that were already issued   *)
(* do run.  storage.get hands out a fresh copy of the stored value, taken  *)
(* when the get is issued; storage.put stores a copy of the value passed.  *)
(* JavaScript `undefined` is the empty sequence <<>> and a present value v *)
(* is <<v>>.                                                               *)
(***************************************************************************)
EXTENDS Integers, Sequences, FiniteSets, Bags, TLC

(***************************************************************************)
(* Bounds of the model.                                                    *)
(***************************************************************************)
MaxItems == 2      \* items created in a run
MaxBatch == 2      \* messages of one batch
MaxTime == 2       \* last reading of the clock
TimedItems == 1    \* items created in a run in which the clock advances
MaxRetries == 1    \* max_retries of the queue consumer
MaxManual == 1     \* POST /process/:workId requests in a run
ModelCap == 2      \* cap of the stored list in the model (QueueCap in the program)
SequentialCap == 1 \* cap of the stored list in the runs of single submits

(***************************************************************************)
(* Program constants.                                                      *)
(***************************************************************************)
COORDINATOR_VERSION == 1
QueueCap == 50
SimpleQueueCap == 10

Coordinators == {"c1", "c2"}
MainCoordinator == "c1"
Modes == {"queue", "direct"}
Messages == {"hello"}
Delays == {0}
ErrorMessages == {"boom"}
DlqError == "Message failed after all retry attempts"

\* Request bodies a caller of the HTTP API may send, valid and invalid.
RequestDelays == {-1, 0, 5001}
RequestModes == {<<>>, <<"direct">>}
SubmitBodies ==
    [message : {"hello"}, delay : Delays, mode : RequestModes]
        \cup [message : {"", "hello"}, delay : RequestDelays, mode : {<<>>}]
BatchBodies ==
    [messages : {<<"hello">>, <<"hello", "bye">>}, delay : Delays, mode : RequestModes]
        \cup [messages : {<<>>, <<"hello">>, <<"hello", "">>, [k \in 1..101 |-> "hello"]},
               delay : RequestDelays, mode : {<<>>}]

VARIABLES
    queue,          \* queue[c]: the list stored under the key "queue" of instance c
    version,        \* version[c]: the value stored under the key "version" (<<>> when absent)
    tasks,          \* bag of the processWork coroutines in flight
    workQueue,      \* bag of the messages in the delivery queue "work-queue"
    consuming,      \* bag of the messages whose Processor call returned, report in flight
    dlq,            \* bag of the messages in the dead-letter queue "work-queue-dlq"
    processCount,   \* processCount[c]: counter stored by the Processor "processor-c"
    now,            \* the wall clock read by Date.now()
    nextId,         \* number of ids handed out by crypto.randomUUID()
    manualCalls,    \* number of POST /process/:workId requests served
    dispatched,     \* dispatched[id]: Processor calls and queue sends issued for item id
    started,        \* started[c]: the constructor's blockConcurrencyWhile has completed
    response        \* the response to the last request of a caller of the HTTP API

vars == <<queue, version, tasks, workQueue, consuming, dlq, processCount, now,
          nextId, manualCalls, dispatched, started, response>>

(***************************************************************************)
(* Helpers on sequences.                                                   *)
(***************************************************************************)
One(x) == SetToBag({x})

Last(s) == s[Len(s)]

\* Array.prototype.find by id: the index of the first item with that id, 0 if none.
FindIndex(q, workId) ==
    IF \E i \in 1..Len(q) : q[i].id = workId
    THEN CHOOSE i \in 1..Len(q) :
            /\ q[i].id = workId
            /\ \A j \in 1..(i - 1) : q[j].id # workId
    ELSE 0

\* timestamps.push({tag: `${timestamps.length + 1}-name`, time})
PushEntry(ts, name, t) == Append(ts, [tag |-> <<Len(ts) + 1, name>>, time |-> t])

\* PushTimestamp on an item whose payload holds a copy of the trail of its own.
PushTimestampOwnTrail(item, name, t) ==
    [item EXCEPT !.timestamps = PushEntry(@, name, t)]

\* workItem.timestamps.push(...): payload.timestamps is the same array object as
\* long as the item's trail was not replaced (aliased), so it grows with it.
PushTimestamp(item, name, t) ==
    [item EXCEPT !.timestamps = PushEntry(@, name, t),
                 !.payload.timestamps =
                     IF item.aliased THEN PushEntry(@, name, t) ELSE @]

\* Truncate that keeps every item.
TruncateKeepingAll(q, cap) == q

\* if (queue.length > cap) queue.splice(0, queue.length - cap)
Truncate(q, cap) ==
    IF Len(q) > cap THEN SubSeq(q, Len(q) - cap + 1, Len(q)) ELSE q

\* NewWorkItem with the status the dispatch gives the item later.
NewWorkItemProcessing(id, message, delay, t) ==
    [id         |-> id,
     payload    |-> [message |-> message, delay |-> delay,
                     timestamps |-> PushEntry(<<>>, "serverReceived", t)],
     aliased    |-> TRUE,
     status     |-> "processing",
     createdAt  |-> t,
     updatedAt  |-> t,
     result     |-> <<>>,
     error      |-> <<>>,
     timestamps |-> PushEntry(<<>>, "serverReceived", t),
     timeTaken  |-> <<>>]

\* The work item built by POST /queue and POST /queue/batch.
NewWorkItem(id, message, delay, t) ==
    [id         |-> id,
     payload    |-> [message |-> message, delay |-> delay,
                     timestamps |-> PushEntry(<<>>, "serverReceived", t)],
     aliased    |-> TRUE,
     status     |-> "pending",
     createdAt  |-> t,
     updatedAt  |-> t,
     result     |-> <<>>,
     error      |-> <<>>,
     timestamps |-> PushEntry(<<>>, "serverReceived", t),
     timeTaken  |-> <<>>]

(***************************************************************************)
(* ProcessorDo.processWork: echoes the trail of the payload and extends it *)
(* with processingStarted (read at t1) and processingCompleted (at t2).    *)
(***************************************************************************)
ProcessorResult(payload, count, t1, t2) ==
    [processed    |-> TRUE,
     input        |-> payload,
     processedAt  |-> t2,
     processCount |-> count,
     message      |-> <<"Processed", payload.message, count>>,
     timestamps   |-> PushEntry(PushEntry(payload.timestamps, "processingStarted", t1),
                                "processingCompleted", t2)]

(***************************************************************************)
(* CoordinatorDo.updateWorkResult on the list q just read from storage:    *)
(* the list it stores, or q itself when the id is unknown (nothing is      *)
(* written).  result, error and timestamps are optional.                   *)
(***************************************************************************)
Truthy(error) == error # <<>> /\ error[1] # ""

\* WithTimeTaken with the subtraction reversed (first - last).
WithTimeTakenReversed(item) ==
    IF Len(item.timestamps) > 1
    THEN [item EXCEPT !.timeTaken =
              <<item.timestamps[1].time - Last(item.timestamps).time>>]
    ELSE item

WithTimeTaken(item) ==
    IF Len(item.timestamps) > 1
    THEN [item EXCEPT !.timeTaken =
              <<Last(item.timestamps).time - item.timestamps[1].time>>]
    ELSE item

\* MergeResult that appends the reported trail to the item's trail.
MergeResultAppending(item, result, error, timestamps, t) ==
    LET a == IF timestamps # <<>>
             THEN [item EXCEPT !.timestamps = @ \o timestamps[1], !.aliased = FALSE]
             ELSE item
        b == IF Truthy(error)
             THEN [a EXCEPT !.status = "failed", !.error = error]
             ELSE [a EXCEPT !.status = "completed",
                            !.result = IF result # <<>> THEN result ELSE @]
    IN  [WithTimeTaken(b) EXCEPT !.updatedAt = t]

MergeResult(item, result, error, timestamps, t) ==
    LET a == IF timestamps # <<>>
             THEN [item EXCEPT !.timestamps = timestamps[1], !.aliased = FALSE]
             ELSE item
        b == IF Truthy(error)
             THEN [a EXCEPT !.status = "failed", !.error = error]
             ELSE [a EXCEPT !.status = "completed",
                            !.result = IF result # <<>> THEN result ELSE @]
    IN  [WithTimeTaken(b) EXCEPT !.updatedAt = t]

\* UpdateWorkResult that stores an empty list when the id is unknown.
UpdateWorkResultClearing(q, workId, result, error, timestamps, t) ==
    LET i == FindIndex(q, workId)
    IN  IF i = 0 THEN <<>>
        ELSE [q EXCEPT ![i] = MergeResult(q[i], result, error, timestamps, t)]

UpdateWorkResult(q, workId, result, error, timestamps, t) ==
    LET i == FindIndex(q, workId)
    IN  IF i = 0 THEN q
        ELSE [q EXCEPT ![i] = MergeResult(q[i], result, error, timestamps, t)]

(***************************************************************************)
(* The catch blocks of processWork: the coroutine's own copy of the list,  *)
(* read before the call, with the item marked failed.                      *)
(***************************************************************************)
\* MarkFailed that drops the thrown message.
MarkFailedWithoutMessage(item, message, t) ==
    [item EXCEPT !.status = "failed", !.updatedAt = t]

MarkFailed(item, message, t) ==
    [item EXCEPT !.status = "failed", !.error = <<message>>, !.updatedAt = t]

FailedSnapshot(q, workId, message, t) ==
    LET i == FindIndex(q, workId)
    IN  [q EXCEPT ![i] = MarkFailed(q[i], message, t)]

(***************************************************************************)
(* Input gate of instance c: open once the constructor has completed and   *)
(* while no storage operation of one of its coroutines is pending.         *)
(***************************************************************************)
StoragePending(c) ==
    \E tk \in BagToSet(tasks) : tk.coord = c /\ tk.pc \in {"get", "put"}

\* GateOpen of an instance whose constructor does not block its requests.
GateOpenEarly(c) == ~StoragePending(c)

GateOpen(c) == started[c] /\ ~StoragePending(c)

\* this.processWork(workId, mode) up to its first await: storage.get is issued
\* and the coroutine holds the copy of the list it will receive.
NewTask(c, workId, mode) ==
    [coord |-> c, workId |-> workId, mode |-> mode, pc |-> "get", queue |-> queue[c]]

(***************************************************************************)
(* Responses of the HTTP API.  kind names the body: c.json({workItem}),    *)
(* c.json({workItems, count}), c.json({success: true}), or the 400 of the  *)
(* validator with the fields whose check failed.                           *)
(***************************************************************************)
Response(status, kind, workItems, fields) ==
    [status |-> status, kind |-> kind, workItems |-> workItems,
     count |-> Len(workItems), fields |-> fields]

NoResponse == Response(0, "none", <<>>, {})

WorkItemResponse(item) == Response(200, "workItem", <<item>>, {})

WorkItemsResponse(workItems) == Response(200, "workItems", workItems, {})

SuccessResponse == Response(200, "success", <<>>, {})

ValidationError(fields) == Response(400, "invalid", <<>>, fields)

TypeOK ==
    /\ now \in 0..MaxTime
    /\ nextId \in 0..MaxItems
    /\ manualCalls \in 0..MaxManual
    /\ \A c \in Coordinators : Len(queue[c]) <= MaxItems

Init ==
    /\ queue = [c \in Coordinators |-> <<>>]
    /\ version = [c \in Coordinators |-> <<COORDINATOR_VERSION>>]
    /\ tasks = EmptyBag
    /\ workQueue = EmptyBag
    /\ consuming = EmptyBag
    /\ dlq = EmptyBag
    /\ processCount = [c \in Coordinators |-> 0]
    /\ now = 0
    /\ nextId = 0
    /\ manualCalls = 0
    /\ dispatched = [id \in 1..MaxItems |-> 0]
    /\ started = [c \in Coordinators |-> TRUE]
    /\ response = NoResponse

(***************************************************************************)
(* An instance that starts on storage left by an earlier deployment: the   *)
(* constructor runs checkAndMigrateVersion under blockConcurrencyWhile, so *)
(* no request is delivered before it has completed.                        *)
(***************************************************************************)
\* What get("version") may find: nothing, an older, the current, a newer version.
StoredVersions == {<<>>, <<COORDINATOR_VERSION - 1>>, <<COORDINATOR_VERSION>>,
                   <<COORDINATOR_VERSION + 1>>}

\* An item stored by the earlier deployment (its id was handed out then).
OldItem == NewWorkItem(0, "hello", 0, 0)

StoredQueues == {<<>>, <<OldItem>>, <<OldItem, [OldItem EXCEPT !.status = "completed"]>>}

\* checkAndMigrateVersion that stamps the version and keeps what is stored.
CheckAndMigrateVersionKeeping(storage) ==
    IF storage.version # <<COORDINATOR_VERSION>>
    THEN [storage EXCEPT !.version = <<COORDINATOR_VERSION>>]
    ELSE storage

\* storage is the record of the keys "queue" and "version"; deleteAll() removes
\* both, and a list that is not stored reads as the empty list.
CheckAndMigrateVersion(storage) ==
    IF storage.version # <<COORDINATOR_VERSION>>
    THEN [queue |-> <<>>, version |-> <<COORDINATOR_VERSION>>]
    ELSE storage

\* Construct that clears the storage whatever version is stored.
ConstructWiping(c) ==
    /\ ~started[c]
    /\ queue' = [queue EXCEPT ![c] = <<>>]
    /\ version' = [version EXCEPT ![c] = <<COORDINATOR_VERSION>>]
    /\ started' = [started EXCEPT ![c] = TRUE]
    /\ UNCHANGED <<tasks, workQueue, consuming, dlq, processCount, now, nextId,
                   manualCalls, dispatched, response>>

Construct(c) ==
    /\ ~started[c]
    /\ LET storage == CheckAndMigrateVersion([queue |-> queue[c], version |-> version[c]])
       IN  /\ queue' = [queue EXCEPT ![c] = storage.queue]
           /\ version' = [version EXCEPT ![c] = storage.version]
    /\ started' = [started EXCEPT ![c] = TRUE]
    /\ UNCHANGED <<tasks, workQueue, consuming, dlq, processCount, now, nextId,
                   manualCalls, dispatched, response>>

\* Instances that have not started yet, on any stored list and version.
InitStored ==
    /\ queue \in [Coordinators -> StoredQueues]
    /\ version \in [Coordinators -> StoredVersions]
    /\ tasks = EmptyBag
    /\ workQueue = EmptyBag
    /\ consuming = EmptyBag
    /\ dlq = EmptyBag
    /\ processCount = [c \in Coordinators |-> 0]
    /\ now = 0
    /\ nextId = 0
    /\ manualCalls = 0
    /\ dispatched = [id \in 1..MaxItems |-> 0]
    /\ started = [c \in Coordinators |-> FALSE]
    /\ response = NoResponse

\* The number of items a run may hold: MaxItems while the clock stands at 0,
\* TimedItems once it has advanced.
ItemBudget == IF now > 0 THEN TimedItems ELSE MaxItems

\* Time passes.
Tick ==
    /\ now < MaxTime
    /\ nextId <= TimedItems
    /\ now' = now + 1
    /\ UNCHANGED <<started, response, queue, version, tasks, workQueue, consuming, dlq, processCount,
                   nextId, manualCalls, dispatched>>

(***************************************************************************)
(* POST /queue: append, truncate, persist, start the dispatch, respond.    *)
(***************************************************************************)
Submit(c, cap, message, delay, mode) ==
    /\ GateOpen(c)
    /\ nextId < ItemBudget
    /\ LET item == NewWorkItem(nextId + 1, message, delay, now)
       IN  /\ queue' = [queue EXCEPT ![c] = Truncate(Append(@, item), cap)]
           /\ tasks' = tasks (+) One(
                  [coord |-> c, workId |-> item.id, mode |-> mode, pc |-> "get",
                   queue |-> queue'[c]])
           /\ response' = WorkItemResponse(item)
    /\ nextId' = nextId + 1
    /\ UNCHANGED <<started, version, workQueue, consuming, dlq, processCount, now, manualCalls, dispatched>>

(***************************************************************************)
(* POST /queue/batch: k items sharing baseTime, one truncation, one put,   *)
(* then one processWork per item, all started before any of them resumes.  *)
(***************************************************************************)
\* BatchItems that gives every item the first message.
BatchItemsOfFirst(firstId, messages, delay, t) ==
    [k \in 1..Len(messages) |-> NewWorkItem(firstId + k - 1, messages[1], delay, t)]

RECURSIVE BatchItems(_, _, _, _)
BatchItems(firstId, messages, delay, t) ==
    IF messages = <<>> THEN <<>>
    ELSE IF Head(messages) = ""
    THEN BatchItems(firstId, Tail(messages), delay, t)    \* if (!message) continue
    ELSE <<NewWorkItem(firstId, Head(messages), delay, t)>>
         \o BatchItems(firstId + 1, Tail(messages), delay, t)

SubmitBatch(c, cap, messages, delay, mode) ==
    /\ GateOpen(c)
    /\ nextId + Len(messages) <= ItemBudget
    /\ LET workItems == BatchItems(nextId + 1, messages, delay, now)
       IN  /\ queue' = [queue EXCEPT ![c] = Truncate(@ \o workItems, cap)]
           /\ tasks' = tasks (+) SetToBag(
                  {[coord |-> c, workId |-> workItems[k].id, mode |-> mode,
                    pc |-> "get", queue |-> queue'[c]] : k \in 1..Len(workItems)})
           /\ response' = WorkItemsResponse(workItems)
    /\ nextId' = nextId + Len(messages)
    /\ UNCHANGED <<started, version, workQueue, consuming, dlq, processCount, now, manualCalls, dispatched>>

(***************************************************************************)
(* POST /process/:workId: processWork(workId) with the default mode.       *)
(***************************************************************************)
\* ManualProcess that dispatches by direct call.
ManualProcessDirect(c, workId) ==
    /\ GateOpen(c)
    /\ manualCalls < MaxManual
    /\ manualCalls' = manualCalls + 1
    /\ tasks' = tasks (+) One(NewTask(c, workId, "direct"))
    /\ UNCHANGED <<started, response, queue, version, workQueue, consuming, dlq, processCount, now, nextId, dispatched>>

ManualProcess(c, workId) ==
    /\ GateOpen(c)
    /\ manualCalls < MaxManual
    /\ manualCalls' = manualCalls + 1
    /\ tasks' = tasks (+) One(NewTask(c, workId, "queue"))
    /\ UNCHANGED <<started, response, queue, version, workQueue, consuming, dlq, processCount, now, nextId, dispatched>>

(***************************************************************************)
(* The validators of POST /queue and POST /queue/batch (zValidator): a     *)
(* body that fails a check is answered with 400 before the handler runs.   *)
(* mode is optional and defaults to "queue".                               *)
(***************************************************************************)
\* z.string().min(1)
ValidMessage(message) == message # ""

\* ValidDelay without the upper limit.
ValidDelayUnlimited(delay) == delay >= 0

\* z.number().min(0).max(5000)
ValidDelay(delay) == delay >= 0 /\ delay <= 5000

\* z.enum(["queue", "direct"]).optional().default("queue")
ValidMode(mode) == mode = <<>> \/ mode[1] \in Modes

ModeOf(mode) == IF mode = <<>> THEN "queue" ELSE mode[1]

\* z.array(z.string().min(1)).min(1).max(100)
ValidMessages(messages) ==
    /\ Len(messages) >= 1
    /\ Len(messages) <= 100
    /\ \A k \in 1..Len(messages) : ValidMessage(messages[k])

\* The fields of a POST /queue body that fail workPayloadSchema.extend({mode}).
SubmissionErrors(body) ==
    (IF ValidMessage(body.message) THEN {} ELSE {"message"})
        \cup (IF ValidDelay(body.delay) THEN {} ELSE {"delay"})
        \cup (IF ValidMode(body.mode) THEN {} ELSE {"mode"})

\* The fields of a POST /queue/batch body that fail batchSubmissionSchema.
BatchErrors(body) ==
    (IF ValidMessages(body.messages) THEN {} ELSE {"messages"})
        \cup (IF ValidDelay(body.delay) THEN {} ELSE {"delay"})
        \cup (IF ValidMode(body.mode) THEN {} ELSE {"mode"})

\* The validator's answer: nothing but the response is produced.
Reject(c, fields) ==
    /\ GateOpen(c)
    /\ response' = ValidationError(fields)
    /\ UNCHANGED <<queue, version, tasks, workQueue, consuming, dlq, processCount, now,
                   nextId, manualCalls, dispatched, started>>

\* POST /queue with any body.
PostQueue(c, cap, body) ==
    IF SubmissionErrors(body) = {}
    THEN Submit(c, cap, body.message, body.delay, ModeOf(body.mode))
    ELSE Reject(c, SubmissionErrors(body))

\* POST /queue/batch with any body.
PostQueueBatch(c, cap, body) ==
    IF BatchErrors(body) = {}
    THEN SubmitBatch(c, cap, body.messages, body.delay, ModeOf(body.mode))
    ELSE Reject(c, BatchErrors(body))

(***************************************************************************)
(* POST /result/:workId posted by a caller of the HTTP API: every body the *)
(* result schema accepts, for any id.                                      *)
(***************************************************************************)
\* Ids a report may name: 0 is never handed out, the others may not be yet.
ReportIds == 0..MaxItems

\* A result that satisfies processorResultSchema, and its trail.
SampleResult == ProcessorResult(NewWorkItem(0, "hello", 0, 0).payload, 1, 0, 0)

ReportBodies ==
    [result : {<<>>}, error : {<<>>, <<"">>, <<"boom">>}, timestamps : {<<>>}]
        \cup [result : {<<SampleResult>>}, error : {<<>>, <<"boom">>},
               timestamps : {<<SampleResult.timestamps>>}]

PostResult(c, workId, body) ==
    /\ GateOpen(c)
    /\ queue' = [queue EXCEPT ![c] =
           UpdateWorkResult(@, workId, body.result, body.error, body.timestamps, now)]
    /\ response' = SuccessResponse
    /\ UNCHANGED <<version, tasks, workQueue, consuming, dlq, processCount, now, nextId,
                   manualCalls, dispatched, started>>

(***************************************************************************)
(* processWork, from the list it read to its first put.                    *)
(***************************************************************************)
DispatchTag(mode) == IF mode = "direct" THEN "directSend-rpc" ELSE "queueEnqueued"

MarkProcessing(item, mode, t) ==
    PushTimestamp([item EXCEPT !.status = "processing", !.updatedAt = t],
                  DispatchTag(mode), t)

\* if (!workItem || workItem.status !== "pending") return;
Dispatchable(q, workId) ==
    /\ FindIndex(q, workId) # 0
    /\ q[FindIndex(q, workId)].status = "pending"

ProcessWorkStart(tk) ==
    /\ BagIn(tk, tasks)
    /\ tk.pc = "get"
    /\ IF ~Dispatchable(tk.queue, tk.workId)
       THEN /\ tasks' = tasks (-) One(tk)
            /\ UNCHANGED queue
       ELSE LET k == FindIndex(tk.queue, tk.workId)
                q == [tk.queue EXCEPT ![k] = MarkProcessing(@, tk.mode, now)]
            IN  /\ queue' = [queue EXCEPT ![tk.coord] = q]
                /\ tasks' = (tasks (-) One(tk))
                               (+) One([tk EXCEPT !.queue = q, !.pc = "put"])
    /\ UNCHANGED <<started, response, version, workQueue, consuming, dlq, processCount, now, nextId,
                   manualCalls, dispatched>>

\* The put is done: the Processor call or the queue send is issued.
ProcessWorkCall(tk) ==
    /\ BagIn(tk, tasks)
    /\ tk.pc = "put"
    /\ tasks' = (tasks (-) One(tk))
                   (+) One([tk EXCEPT !.pc = IF tk.mode = "direct" THEN "rpc" ELSE "send"])
    /\ dispatched' = [dispatched EXCEPT ![tk.workId] = @ + 1]
    /\ UNCHANGED <<started, response, queue, version, workQueue, consuming, dlq, processCount, now, nextId,
                   manualCalls>>

\* The coroutine's workItem: the object found in its own copy of the list.
TaskItem(tk) == tk.queue[FindIndex(tk.queue, tk.workId)]

\* stub.processWork(workItem.payload) returned: updateWorkResult with its result.
DirectReturn(tk, t1) ==
    /\ BagIn(tk, tasks)
    /\ tk.pc = "rpc"
    /\ GateOpen(tk.coord)
    /\ t1 \in Last(TaskItem(tk).timestamps).time .. now
    /\ LET r == ProcessorResult(TaskItem(tk).payload, processCount[tk.coord] + 1, t1, now)
       IN  queue' = [queue EXCEPT ![tk.coord] =
               UpdateWorkResult(@, tk.workId, <<r>>, <<>>, <<r.timestamps>>, now)]
    /\ processCount' = [processCount EXCEPT ![tk.coord] = @ + 1]
    /\ tasks' = tasks (-) One(tk)
    /\ UNCHANGED <<started, response, version, workQueue, consuming, dlq, now, nextId, manualCalls,
                   dispatched>>

\* stub.processWork threw: the catch block stores the coroutine's own list.
DirectThrow(tk, message) ==
    /\ BagIn(tk, tasks)
    /\ tk.pc = "rpc"
    /\ GateOpen(tk.coord)
    /\ queue' = [queue EXCEPT ![tk.coord] =
           FailedSnapshot(tk.queue, tk.workId, message, now)]
    /\ tasks' = tasks (-) One(tk)
    /\ UNCHANGED <<started, response, version, workQueue, consuming, dlq, processCount, now, nextId,
                   manualCalls, dispatched>>

\* QueueMessage that always names the main coordinator.
QueueMessageToMain(c, item) ==
    [workId |-> item.id, payload |-> item.payload, coordinatorId |-> MainCoordinator,
     timestamps |-> item.timestamps]

\* The message WORK_QUEUE.send hands to the delivery queue.
QueueMessage(c, item) ==
    [workId |-> item.id, payload |-> item.payload, coordinatorId |-> c,
     timestamps |-> item.timestamps]

SendOk(tk) ==
    /\ BagIn(tk, tasks)
    /\ tk.pc = "send"
    /\ GateOpen(tk.coord)
    /\ workQueue' = workQueue
           (+) One([body |-> QueueMessage(tk.coord, TaskItem(tk)), attempts |-> 0])
    /\ tasks' = tasks (-) One(tk)
    /\ UNCHANGED <<started, response, queue, version, consuming, dlq, processCount, now, nextId,
                   manualCalls, dispatched>>

\* WORK_QUEUE.send threw: the catch block stores the coroutine's own list.
SendThrow(tk, message) ==
    /\ BagIn(tk, tasks)
    /\ tk.pc = "send"
    /\ GateOpen(tk.coord)
    /\ queue' = [queue EXCEPT ![tk.coord] =
           FailedSnapshot(tk.queue, tk.workId, message, now)]
    /\ tasks' = tasks (-) One(tk)
    /\ UNCHANGED <<started, response, version, workQueue, consuming, dlq, processCount, now, nextId,
                   manualCalls, dispatched>>

(***************************************************************************)
(* ProcessorWorker.queue, regular queue.  Each message of a batch runs on  *)
(* its own (Promise.all): pick up, call the Processor, post the result to  *)
(* the coordinator named in the message, ack; any throw ends in retry.     *)
(***************************************************************************)
\* The trail the consumer builds at pick-up.  It stays local to the consumer:
\* the Processor is called with the payload, and result.timestamps is reported.
ConsumerTimestamps(body, t) == PushEntry(body.timestamps, "consumerPickedUp", t)

\* message.retry(): redelivered until max_retries is used up, then dead-lettered.
Retry(m) == [m EXCEPT !.attempts = @ + 1]

Exhausted(m) == m.attempts >= MaxRetries

\* The consumer picks the message up and the Processor call returns.
ConsumerProcess(m, t1) ==
    /\ BagIn(m, workQueue)
    /\ t1 \in Last(m.body.timestamps).time .. now
    /\ LET c == m.body.coordinatorId
       IN  /\ processCount' = [processCount EXCEPT ![c] = @ + 1]
           /\ consuming' = consuming (+) One(
                  [body |-> m.body, attempts |-> m.attempts,
                   result |-> ProcessorResult(m.body.payload, processCount[c] + 1, t1, now)])
    /\ workQueue' = workQueue (-) One(m)
    /\ UNCHANGED <<started, response, queue, version, tasks, dlq, now, nextId, manualCalls, dispatched>>

\* ConsumerProcessThrow that acknowledges the message instead of retrying it.
ConsumerProcessThrowAcking(m) ==
    /\ BagIn(m, workQueue)
    /\ workQueue' = workQueue (-) One(m)
    /\ UNCHANGED <<started, response, queue, version, tasks, consuming, dlq, processCount, now,
                   nextId, manualCalls, dispatched>>

\* The Processor call threw: message.retry().
ConsumerProcessThrow(m) ==
    /\ BagIn(m, workQueue)
    /\ IF Exhausted(m)
       THEN /\ workQueue' = workQueue (-) One(m)
            /\ dlq' = dlq (+) One(m)
       ELSE /\ workQueue' = (workQueue (-) One(m)) (+) One(Retry(m))
            /\ UNCHANGED dlq
    /\ UNCHANGED <<started, response, queue, version, tasks, consuming, processCount, now, nextId,
                   manualCalls, dispatched>>

\* POST /result/:workId with {result, timestamps: result.timestamps}, as served
\* by the coordinator.
ReportedQueue(q, r) ==
    UpdateWorkResult(q, r.body.workId, <<r.result>>, <<>>, <<r.result.timestamps>>, now)

\* The post returned: message.ack().
ConsumerReport(r) ==
    /\ BagIn(r, consuming)
    /\ GateOpen(r.body.coordinatorId)
    /\ queue' = [queue EXCEPT ![r.body.coordinatorId] = ReportedQueue(@, r)]
    /\ consuming' = consuming (-) One(r)
    /\ UNCHANGED <<started, response, version, tasks, workQueue, dlq, processCount, now, nextId,
                   manualCalls, dispatched>>

\* The post threw, before the coordinator served it (applied = FALSE) or after
\* (applied = TRUE, the response was lost): message.retry().
ConsumerReportThrow(r, applied) ==
    /\ BagIn(r, consuming)
    /\ IF applied
       THEN /\ GateOpen(r.body.coordinatorId)
            /\ queue' = [queue EXCEPT ![r.body.coordinatorId] = ReportedQueue(@, r)]
       ELSE UNCHANGED queue
    /\ LET m == [body |-> r.body, attempts |-> r.attempts]
       IN  IF Exhausted(m)
           THEN /\ dlq' = dlq (+) One(m)
                /\ UNCHANGED workQueue
           ELSE /\ workQueue' = workQueue (+) One(Retry(m))
                /\ UNCHANGED dlq
    /\ consuming' = consuming (-) One(r)
    /\ UNCHANGED <<started, response, version, tasks, processCount, now, nextId, manualCalls, dispatched>>

(***************************************************************************)
(* ProcessorWorker.queue, dead-letter queue: report the permanent failure  *)
(* with the message's trail extended by reachedDLQ, then ack either way.   *)
(***************************************************************************)
\* DlqTimestamps without the reachedDLQ entry.
DlqTimestampsUnmarked(body, t) == body.timestamps

DlqTimestamps(body, t) == PushEntry(body.timestamps, "reachedDLQ", t)

DlqReport(m) ==
    /\ BagIn(m, dlq)
    /\ GateOpen(m.body.coordinatorId)
    /\ queue' = [queue EXCEPT ![m.body.coordinatorId] =
           UpdateWorkResult(@, m.body.workId, <<>>, <<DlqError>>,
                            <<DlqTimestamps(m.body, now)>>, now)]
    /\ dlq' = dlq (-) One(m)
    /\ UNCHANGED <<started, response, version, tasks, workQueue, consuming, processCount, now, nextId,
                   manualCalls, dispatched>>

\* The post threw: the catch block acks, the message is gone.
DlqReportThrow(m) ==
    /\ BagIn(m, dlq)
    /\ dlq' = dlq (-) One(m)
    /\ UNCHANGED <<started, response, queue, version, tasks, workQueue, consuming, processCount, now,
                   nextId, manualCalls, dispatched>>

(***************************************************************************)
(* Next-state relations.                                                   *)
(***************************************************************************)
CallerSubmits ==
    \E m \in Messages, d \in Delays, mode \in Modes :
        Submit(MainCoordinator, ModelCap, m, d, mode)

CallerSubmitsSequentially ==
    \E m \in Messages, d \in Delays, mode \in Modes :
        Submit(MainCoordinator, SequentialCap, m, d, mode)

CallerSubmitsBatch ==
    \E n \in 2..MaxBatch, m \in Messages, d \in Delays, mode \in Modes :
        SubmitBatch(MainCoordinator, ModelCap, [k \in 1..n |-> m], d, mode)

CallerReprocesses == \E w \in 1..MaxItems : ManualProcess(MainCoordinator, w)

DispatchStarts == \E tk \in BagToSet(tasks) : ProcessWorkStart(tk)

DispatchCalls == \E tk \in BagToSet(tasks) : ProcessWorkCall(tk)

ProcessorReturns == \E tk \in BagToSet(tasks), t1 \in 0..MaxTime : DirectReturn(tk, t1)

ProcessorThrows == \E tk \in BagToSet(tasks), e \in ErrorMessages : DirectThrow(tk, e)

EnqueueReturns == \E tk \in BagToSet(tasks) : SendOk(tk)

EnqueueThrows == \E tk \in BagToSet(tasks), e \in ErrorMessages : SendThrow(tk, e)

ConsumerProcesses ==
    \E m \in BagToSet(workQueue), t1 \in 0..MaxTime : ConsumerProcess(m, t1)

ConsumerProcessFails == \E m \in BagToSet(workQueue) : ConsumerProcessThrow(m)

ConsumerReports == \E r \in BagToSet(consuming) : ConsumerReport(r)

ConsumerReportFails ==
    \E r \in BagToSet(consuming), applied \in BOOLEAN : ConsumerReportThrow(r, applied)

DeadLetterReported == \E m \in BagToSet(dlq) : DlqReport(m)

DeadLetterDropped == \E m \in BagToSet(dlq) : DlqReportThrow(m)

\* What the coordinator, the Processor, the queue and its consumer do once work
\* was submitted, the dead-letter report arriving.
System ==
    \/ DispatchStarts
    \/ DispatchCalls
    \/ ProcessorReturns
    \/ ProcessorThrows
    \/ EnqueueReturns
    \/ EnqueueThrows
    \/ ConsumerProcesses
    \/ ConsumerProcessFails
    \/ ConsumerReports
    \/ ConsumerReportFails
    \/ DeadLetterReported

Next ==
    \/ Tick
    \/ CallerSubmits
    \/ CallerSubmitsBatch
    \/ CallerReprocesses
    \/ System
    \/ DeadLetterDropped

(***************************************************************************)
(* Specifications.                                                         *)
(*   Spec            every operation of the system.                        *)
(*   SpecSequential  single submits only (no batch, no manual re-trigger), *)
(*                   with the cap SequentialCap so that they overflow it.  *)
(*   SpecSequentialNoThrow  SpecSequential without the two throws of       *)
(*                   dispatch (Processor call, enqueue).                   *)
(*   SpecReported    every dead-lettered message is reported (the post of  *)
(*                   the dead-letter handler does not throw) and nobody    *)
(*                   re-triggers a dispatch.                               *)
(*   SpecMigration   instances that start on the storage of an earlier     *)
(*                   deployment, then single submits.                      *)
(*   SpecSharded     single submits to every instance of Coordinators.     *)
(*   SpecReports     single submits and callers that post reports of their *)
(*                   own to /result/:workId.                               *)
(*   SpecReportsSequential  SpecReports with the cap SequentialCap, so     *)
(*                   that reports arrive for evicted items.                *)
(*   SpecRequests    SpecReported with callers that post any body to       *)
(*                   /queue and /queue/batch, well-formed or not.          *)
(*   SpecTrails      SpecReportsSequential with reports that carry a trail *)
(*                   of one entry.                                         *)
(*   SpecOverflow    SpecSequential with batches that meet the cap         *)
(*                   SequentialCap.                                        *)
(***************************************************************************)
Spec == Init /\ [][Next]_vars

NextSequential ==
    \/ Tick
    \/ CallerSubmitsSequentially
    \/ System
    \/ DeadLetterDropped

SpecSequential == Init /\ [][NextSequential]_vars

NextReported ==
    \/ Tick
    \/ CallerSubmits
    \/ CallerSubmitsBatch
    \/ System

SpecReported == Init /\ [][NextReported]_vars

\* Single submits whose Processor call and enqueue never throw.
NextSequentialNoThrow ==
    \/ Tick
    \/ CallerSubmitsSequentially
    \/ DispatchStarts
    \/ DispatchCalls
    \/ ProcessorReturns
    \/ EnqueueReturns
    \/ ConsumerProcesses
    \/ ConsumerProcessFails
    \/ ConsumerReports
    \/ ConsumerReportFails
    \/ DeadLetterReported
    \/ DeadLetterDropped

SpecSequentialNoThrow == Init /\ [][NextSequentialNoThrow]_vars

\* Callers that submit to any of the instances.
ShardedSubmits ==
    \E c \in Coordinators, m \in Messages, d \in Delays, mode \in Modes :
        Submit(c, ModelCap, m, d, mode)

NextSharded ==
    \/ Tick
    \/ ShardedSubmits
    \/ System
    \/ DeadLetterDropped

SpecSharded == Init /\ [][NextSharded]_vars

\* Instances starting on stored data, then serving single submits.
InstanceStarts == \E c \in Coordinators : Construct(c)

NextMigration ==
    \/ InstanceStarts
    \/ Tick
    \/ CallerSubmitsSequentially
    \/ System

SpecMigration == InitStored /\ [][NextMigration]_vars

\* Callers that post reports: any id, created or not, and any report body.
CallerPostsResult ==
    \E w \in ReportIds, body \in ReportBodies : PostResult(MainCoordinator, w, body)

NextReports ==
    \/ Tick
    \/ CallerSubmits
    \/ System
    \/ CallerPostsResult

SpecReports == Init /\ [][NextReports]_vars

NextReportsSequential ==
    \/ Tick
    \/ CallerSubmitsSequentially
    \/ System
    \/ CallerPostsResult

SpecReportsSequential == Init /\ [][NextReportsSequential]_vars

\* Callers that post any body, valid or not.
CallerPosts == \E body \in SubmitBodies : PostQueue(MainCoordinator, ModelCap, body)

CallerPostsBatch == \E body \in BatchBodies : PostQueueBatch(MainCoordinator, ModelCap, body)

NextRequests ==
    \/ Tick
    \/ CallerPosts
    \/ CallerPostsBatch
    \/ System

SpecRequests == Init /\ [][NextRequests]_vars

(***************************************************************************)
(* Vocabulary of the properties.                                           *)
(***************************************************************************)
Ids(q) == {q[k].id : k \in 1..Len(q)}

ItemOf(q, id) == q[FindIndex(q, id)]

Terminal == {"completed", "failed"}

Rank(status) ==
    CASE status = "pending" -> 0
      [] status = "processing" -> 1
      [] OTHER -> 2

\* The ids stored both before and after the step.
Kept(c) == Ids(queue[c]) \cap Ids(queue'[c])

\* Every item of c other than workId is stored as it was, at the same place.
OthersUnchanged(c, workId) ==
    /\ Len(queue'[c]) = Len(queue[c])
    /\ \A k \in 1..Len(queue[c]) :
          queue[c][k].id # workId => queue'[c][k] = queue[c][k]

\* Nothing is left to run: no coroutine, no message anywhere.
Quiescent ==
    /\ tasks = EmptyBag
    /\ workQueue = EmptyBag
    /\ consuming = EmptyBag
    /\ dlq = EmptyBag

TimeTakenOf(item) == <<Last(item.timestamps).time - item.timestamps[1].time>>

(***************************************************************************)
(* C1.  The persisted status of an item never moves backwards in the order *)
(* pending < processing < {completed, failed}, whatever the interleaving   *)
(* of submit, submitBatch, dispatch and reportResult.                      *)
(***************************************************************************)
C1_StatusNeverRegresses ==
    [][\A c \in Coordinators : \A id \in Kept(c) :
          Rank(ItemOf(queue'[c], id).status) >= Rank(ItemOf(queue[c], id).status)]_vars

(***************************************************************************)
(* C2.  Once an item is stored as completed or failed its status never     *)
(* changes again.                                                          *)
(***************************************************************************)
C2_TerminalIsFinal ==
    [][\A c \in Coordinators : \A id \in Kept(c) :
          ItemOf(queue[c], id).status \in Terminal
              => ItemOf(queue'[c], id).status = ItemOf(queue[c], id).status]_vars

(***************************************************************************)
(* C3.  Over any sequence of automatic dispatches and manual re-triggers   *)
(* an item is handed to the Processor or to the delivery queue at most     *)
(* once.                                                                   *)
(***************************************************************************)
C3_HandedOverAtMostOnce == \A id \in 1..MaxItems : dispatched[id] <= 1

(***************************************************************************)
(* C4.  No lost update: a step of a dispatch (its first write, its success *)
(* path, its failure path) or a report of the consumer leaves every item   *)
(* other than the one it targets as it was stored.                         *)
(***************************************************************************)
DispatchStep(tk) ==
    \/ ProcessWorkStart(tk)
    \/ \E t1 \in 0..MaxTime : DirectReturn(tk, t1)
    \/ \E e \in ErrorMessages : DirectThrow(tk, e)
    \/ \E e \in ErrorMessages : SendThrow(tk, e)

C4_NoLostUpdate ==
    [][/\ \A tk \in BagToSet(tasks) :
             DispatchStep(tk) => OthersUnchanged(tk.coord, tk.workId)
       /\ \A r \in BagToSet(consuming) :
             ConsumerReport(r) => OthersUnchanged(r.body.coordinatorId, r.body.workId)
       /\ \A m \in BagToSet(dlq) :
             DlqReport(m) => OthersUnchanged(m.body.coordinatorId, m.body.workId)]_vars

(***************************************************************************)
(* C5.  An item leaves the list only during a submit or submitBatch (front *)
(* truncation), and the only ids that enter the list are the ids the step  *)
(* has just created: an evicted item never reappears.                      *)
(***************************************************************************)
C5_OnlyEvictionRemoves ==
    [][\A c \in Coordinators :
          /\ nextId' = nextId => Ids(queue[c]) \subseteq Ids(queue'[c])
          /\ Ids(queue'[c]) \ Ids(queue[c]) \subseteq (nextId + 1)..nextId']_vars

(***************************************************************************)
(* C6.  After N > cap single submits issued one after another, listQueue   *)
(* returns exactly cap items: the cap most recently submitted ones, in     *)
(* submission order.  (listQueue is served when the input gate is open.)   *)
(***************************************************************************)
ListedIds(c) == [k \in 1..Len(queue[c]) |-> queue[c][k].id]

C6_BoundedHistory ==
    (nextId > SequentialCap /\ GateOpen(MainCoordinator))
        => ListedIds(MainCoordinator)
              = [k \in 1..SequentialCap |-> nextId - SequentialCap + k]

(***************************************************************************)
(* C7.  Every item that was created and not evicted ends completed or      *)
(* failed: when every Processor call has returned or thrown and every      *)
(* message was reported (nothing is left to run), no item of the list is   *)
(* pending or processing.                                                  *)
(***************************************************************************)
C7_EveryItemSettles ==
    Quiescent =>
        \A c \in Coordinators : \A k \in 1..Len(queue[c]) :
            queue[c][k].status \in Terminal

TimeTakenRight(item) ==
    Len(item.timestamps) >= 2 => item.timeTaken = TimeTakenOf(item)

C8_StoredTimeTaken ==
    \A c \in Coordinators : \A k \in 1..Len(queue[c]) :
        /\ queue[c][k].status = "completed" => TimeTakenRight(queue[c][k])
        /\ queue[c][k].status = "failed" =>
              (queue[c][k].timeTaken = <<>> \/ TimeTakenRight(queue[c][k]))

\* After a report for workId was served by c: the item, when c holds it.
Reported(c, workId) ==
    FindIndex(queue[c], workId) # 0 =>
        /\ ItemOf(queue'[c], workId).status \in Terminal
        /\ TimeTakenRight(ItemOf(queue'[c], workId))

C9_ResultAndErrorMatchStatus ==
    \A c \in Coordinators : \A k \in 1..Len(queue[c]) :
        /\ queue[c][k].result # <<>> => queue[c][k].status = "completed"
        /\ queue[c][k].error # <<>> => queue[c][k].status = "failed"

(***************************************************************************)
(* C10.  When the direct Processor call or the enqueue throws, the item is *)
(* stored failed with the thrown message as its error (what the next       *)
(* listQueue returns), and the coordinator issues no further call or send: *)
(* the coroutine ends, nothing is handed over, nothing is enqueued.        *)
(***************************************************************************)
FailureStored(tk, e) ==
    /\ FindIndex(queue'[tk.coord], tk.workId) # 0
    /\ ItemOf(queue'[tk.coord], tk.workId).status = "failed"
    /\ ItemOf(queue'[tk.coord], tk.workId).error = <<e>>
    /\ dispatched' = dispatched
    /\ workQueue' = workQueue
    /\ \A t \in BagToSet(tasks') : BagIn(t, tasks)
    /\ CopiesIn(tk, tasks') = CopiesIn(tk, tasks) - 1

DeadLetterStored(m) ==
    LET c == m.body.coordinatorId
        w == m.body.workId
    IN  FindIndex(queue[c], w) # 0 =>
            /\ FindIndex(queue'[c], w) # 0
            /\ ItemOf(queue'[c], w).status = "failed"
            /\ ItemOf(queue'[c], w).error = <<DlqError>>
            /\ ItemOf(queue'[c], w).timestamps =
                   Append(m.body.timestamps,
                          [tag |-> <<Len(m.body.timestamps) + 1, "reachedDLQ">>,
                           time |-> now])

C11_DeadLetterMarksFailed ==
    [][\A m \in BagToSet(dlq) : DlqReport(m) => DeadLetterStored(m)]_vars

\* A dead-letter report was stored: the trail of the failed item ends at reachedDLQ.
C11_Witness ==
    \E k \in 1..Len(queue[MainCoordinator]) :
        LET item == queue[MainCoordinator][k]
        IN  /\ item.status = "failed"
            /\ item.error = <<DlqError>>
            /\ Last(item.timestamps).tag = <<Len(item.timestamps), "reachedDLQ">>
            /\ Len(item.timestamps) = 3

(***************************************************************************)
(* C12.  A submit whose message is empty or whose delay is outside 0..5000 *)
(* and a submitBatch with 0 or more than 100 messages, with an empty       *)
(* message or with an out-of-range delay, is answered with an error and    *)
(* changes nothing: the lists and versions are as before, no item is       *)
(* created and no dispatch is started.                                     *)
(***************************************************************************)
Malformed(body) ==
    \/ body.message = ""
    \/ body.delay < 0
    \/ body.delay > 5000

MalformedBatch(body) ==
    \/ Len(body.messages) = 0
    \/ Len(body.messages) > 100
    \/ \E k \in 1..Len(body.messages) : body.messages[k] = ""
    \/ body.delay < 0
    \/ body.delay > 5000

Rejected ==
    /\ response'.status = 400
    /\ response'.fields # {}
    /\ response'.workItems = <<>>
    /\ queue' = queue
    /\ version' = version
    /\ nextId' = nextId
    /\ tasks' = tasks
    /\ workQueue' = workQueue
    /\ dispatched' = dispatched

C12_MalformedIsRejected ==
    [][/\ \A body \in SubmitBodies :
             (Malformed(body) /\ PostQueue(MainCoordinator, ModelCap, body)) => Rejected
       /\ \A body \in BatchBodies :
             (MalformedBatch(body) /\ PostQueueBatch(MainCoordinator, ModelCap, body))
                 => Rejected]_vars

\* A malformed body was rejected by an instance that holds items and has a
\* dispatch in flight.
C12_Witness ==
    /\ response.status = 400
    /\ "delay" \in response.fields
    /\ Len(queue[MainCoordinator]) > 0
    /\ tasks # EmptyBag

(***************************************************************************)
(* C13.  A report for an id that is not in the list (never created, or     *)
(* evicted) is answered without error and leaves the stored list and the   *)
(* stored version as they were, whoever posts it: a caller, the consumer   *)
(* (which then acks the message) or the dead-letter handler.               *)
(***************************************************************************)
Unknown(c, workId) == FindIndex(queue[c], workId) = 0

Untouched == queue' = queue /\ version' = version

C13_UnknownIdTolerated ==
    [][/\ \A w \in ReportIds, body \in ReportBodies :
             (Unknown(MainCoordinator, w) /\ PostResult(MainCoordinator, w, body))
                 => (Untouched /\ response' = SuccessResponse)
       /\ \A r \in BagToSet(consuming) :
             (Unknown(r.body.coordinatorId, r.body.workId) /\ ConsumerReport(r))
                 => (Untouched /\ CopiesIn(r, consuming') = CopiesIn(r, consuming) - 1)
       /\ \A m \in BagToSet(dlq) :
             (Unknown(m.body.coordinatorId, m.body.workId) /\ DlqReport(m))
                 => (Untouched /\ CopiesIn(m, dlq') = CopiesIn(m, dlq) - 1)]_vars

\* A report was answered while item 1, which was sent to the queue, was evicted
\* from a list that holds item 2, and no message of item 1 is left.
C13_Witness ==
    /\ response = SuccessResponse
    /\ dispatched[1] = 1
    /\ Ids(queue[MainCoordinator]) = {2}
    /\ Quiescent

(***************************************************************************)
(* C14.  When an instance starts on a stored version other than            *)
(* COORDINATOR_VERSION (none stored included), its constructor leaves an   *)
(* empty list and the version COORDINATOR_VERSION, whatever was stored;    *)
(* nothing touches its storage before the constructor has completed, and a *)
(* started instance always has the version COORDINATOR_VERSION.            *)
(***************************************************************************)
C14_VersionMismatchResets ==
    [][\A c \in Coordinators :
          /\ (~started[c] /\ started'[c] /\ version[c] # <<COORDINATOR_VERSION>>)
                => (queue'[c] = <<>> /\ version'[c] = <<COORDINATOR_VERSION>>)
          /\ (~started[c] /\ ~started'[c])
                => (queue'[c] = queue[c] /\ version'[c] = version[c])
          /\ ~started[c] => \A tk \in BagToSet(tasks') : tk.coord # c
          /\ started'[c] => version'[c] = <<COORDINATOR_VERSION>>]_vars

\* One instance has started, holds the current version and serves a submit,
\* while another, on a newer version and two old items, has not started yet.
C14_Witness ==
    /\ started[MainCoordinator]
    /\ Ids(queue[MainCoordinator]) = {1}
    /\ version[MainCoordinator] = <<COORDINATOR_VERSION>>
    /\ \E c \in Coordinators :
          /\ ~started[c]
          /\ version[c] = <<COORDINATOR_VERSION + 1>>
          /\ Len(queue[c]) = 2

(***************************************************************************)
(* C15.  A valid submit is answered with the created item, pending, with a *)
(* trail of exactly one entry (serverReceived), and that item is in the    *)
(* stored list when the response is produced; no later step of the         *)
(* dispatch, of the Processor or of the consumer, whatever its outcome,    *)
(* changes that response.                                                  *)
(***************************************************************************)
Acknowledged ==
    /\ response'.status = 200
    /\ response'.kind = "workItem"
    /\ Len(response'.workItems) = 1
    /\ LET item == response'.workItems[1]
       IN  /\ item.id = nextId'
           /\ item.status = "pending"
           /\ item.timestamps = <<[tag |-> <<1, "serverReceived">>, time |-> now]>>
           /\ item.result = <<>>
           /\ item.error = <<>>
           /\ \E k \in 1..Len(queue'[MainCoordinator]) : queue'[MainCoordinator][k] = item

C15_SubmitAcknowledged ==
    [][/\ CallerSubmits => Acknowledged
       /\ (System \/ DeadLetterDropped) => response' = response]_vars

\* The submit was acknowledged with the pending item, and its dispatch has
\* failed since: the stored item is failed, the response is what it was.
C15_Witness ==
    /\ response.kind = "workItem"
    /\ response.workItems[1].status = "pending"
    /\ \E k \in 1..Len(queue[MainCoordinator]) :
          /\ queue[MainCoordinator][k].id = response.workItems[1].id
          /\ queue[MainCoordinator][k].status = "failed"
          /\ queue[MainCoordinator][k].error = <<"boom">>

(***************************************************************************)
(* C16.  submitBatch with k valid messages (1 <= k <= 100) and a valid     *)
(* delay creates and returns exactly k items, one per message in message   *)
(* order, with pairwise distinct ids, all pending, all with the delay of   *)
(* the request and a single-entry trail whose serverReceived time is the   *)
(* same for all of them.                                                   *)
(***************************************************************************)
BatchAcknowledged(body) ==
    LET items == response'.workItems
        k == Len(body.messages)
    IN  /\ response'.status = 200
        /\ response'.kind = "workItems"
        /\ Len(items) = k
        /\ response'.count = k
        /\ nextId' = nextId + k
        /\ \A i \in 1..k :
              /\ items[i].payload.message = body.messages[i]
              /\ items[i].payload.delay = body.delay
              /\ items[i].status = "pending"
              /\ items[i].id \in (nextId + 1)..nextId'
              /\ Len(items[i].timestamps) = 1
              /\ items[i].timestamps[1].tag = <<1, "serverReceived">>
              /\ items[i].timestamps[1].time = items[1].timestamps[1].time
        /\ \A i, j \in 1..k : i # j => items[i].id # items[j].id

C16_BatchCreatesOnePerMessage ==
    [][\A body \in BatchBodies :
          (~MalformedBatch(body) /\ PostQueueBatch(MainCoordinator, ModelCap, body))
              => BatchAcknowledged(body)]_vars

\* A batch of two different messages was acknowledged by an instance that
\* holds both items.
C16_Witness ==
    /\ response.kind = "workItems"
    /\ response.count = 2
    /\ response.workItems[1].payload.message = "hello"
    /\ response.workItems[2].payload.message = "bye"
    /\ Ids(queue[MainCoordinator]) = {1, 2}

(***************************************************************************)
(* C17.  A report that carries an error string, the empty string included, *)
(* stores the item it names as failed with that string as its error.       *)
(***************************************************************************)
C17_ErrorMarksFailed ==
    [][\A w \in ReportIds, body \in ReportBodies :
          (/\ body.error # <<>>
           /\ ~Unknown(MainCoordinator, w)
           /\ PostResult(MainCoordinator, w, body))
              => /\ ItemOf(queue'[MainCoordinator], w).status = "failed"
                 /\ ItemOf(queue'[MainCoordinator], w).error = body.error]_vars

\* The same for the error strings that JavaScript takes as true (not empty).
C17_NonEmptyErrorMarksFailed ==
    [][\A w \in ReportIds, body \in ReportBodies :
          (/\ Truthy(body.error)
           /\ ~Unknown(MainCoordinator, w)
           /\ PostResult(MainCoordinator, w, body))
              => /\ ItemOf(queue'[MainCoordinator], w).status = "failed"
                 /\ ItemOf(queue'[MainCoordinator], w).error = body.error]_vars

(***************************************************************************)
(* C18.  When the Processor call of an item submitted in direct mode       *)
(* returns, and the item was not evicted, the item is stored completed     *)
(* with the Processor's result and the trail serverReceived, directSend,   *)
(* processingStarted, processingCompleted; the payload the Processor was   *)
(* given carries the trail up to directSend.  (No item is ever evicted     *)
(* under Spec: a run creates at most ModelCap items.)                      *)
(***************************************************************************)
DirectTrail ==
    <<<<1, "serverReceived">>, <<2, "directSend-rpc">>, <<3, "processingStarted">>,
      <<4, "processingCompleted">>>>

Tags(ts) == [k \in 1..Len(ts) |-> ts[k].tag]

DirectCompleted(c, workId) ==
    /\ FindIndex(queue'[c], workId) # 0
    /\ LET item == ItemOf(queue'[c], workId)
       IN  /\ item.status = "completed"
           /\ item.result # <<>>
           /\ Tags(item.result[1].input.timestamps) = SubSeq(DirectTrail, 1, 2)
           /\ item.timestamps = item.result[1].timestamps
           /\ Tags(item.timestamps) = DirectTrail

C18_DirectCallCompletes ==
    [][\A tk \in BagToSet(tasks) :
          (tk.mode = "direct" /\ \E t1 \in 0..MaxTime : DirectReturn(tk, t1))
              => DirectCompleted(tk.coord, tk.workId)]_vars

\* The same for the calls that return while the item is in the stored list.
C18_DirectCallCompletesListed ==
    [][\A tk \in BagToSet(tasks) :
          (/\ tk.mode = "direct"
           /\ ~Unknown(tk.coord, tk.workId)
           /\ \E t1 \in 0..MaxTime : DirectReturn(tk, t1))
              => DirectCompleted(tk.coord, tk.workId)]_vars

(***************************************************************************)
(* C19.  reportResult is idempotent: on every stored list, applying a      *)
(* report (of a caller, of the consumer, of the dead-letter handler) and   *)
(* then the same report again, at that time or later, leaves the item with *)
(* the status, result, error, trail and timeTaken the first application    *)
(* gave it, and every other item as it was; only updatedAt of the item may *)
(* differ.                                                                 *)
(***************************************************************************)
SameReported(again, once, workId) ==
    /\ Len(again) = Len(once)
    /\ \A k \in 1..Len(once) :
          IF once[k].id = workId
          THEN [again[k] EXCEPT !.updatedAt = 0] = [once[k] EXCEPT !.updatedAt = 0]
          ELSE again[k] = once[k]

OthersKept(once, q, workId) ==
    /\ Len(once) = Len(q)
    /\ \A k \in 1..Len(q) : q[k].id # workId => once[k] = q[k]

Idempotent(q, workId, result, error, timestamps) ==
    \A t1 \in now..MaxTime :
        LET once == UpdateWorkResult(q, workId, result, error, timestamps, t1)
        IN  /\ OthersKept(once, q, workId)
            /\ \A t2 \in t1..MaxTime :
                  SameReported(UpdateWorkResult(once, workId, result, error, timestamps, t2),
                               once, workId)

C19_ReportIsIdempotent ==
    /\ \A w \in ReportIds, body \in ReportBodies :
          Idempotent(queue[MainCoordinator], w, body.result, body.error, body.timestamps)
    /\ \A r \in BagToSet(consuming) :
          Idempotent(queue[r.body.coordinatorId], r.body.workId, <<r.result>>, <<>>,
                     <<r.result.timestamps>>)
    /\ \A m \in BagToSet(dlq) :
          Idempotent(queue[m.body.coordinatorId], m.body.workId, <<>>, <<DlqError>>,
                     <<DlqTimestamps(m.body, now)>>)

\* A caller's report with an error and a trail was applied to one of two items.
C19_Witness ==
    /\ response = SuccessResponse
    /\ Len(queue[MainCoordinator]) = 2
    /\ \E k \in 1..2 :
          /\ queue[MainCoordinator][k].status = "failed"
          /\ queue[MainCoordinator][k].error = <<"boom">>
          /\ queue[MainCoordinator][k].result = <<SampleResult>>
          /\ queue[MainCoordinator][k].timestamps = SampleResult.timestamps

(***************************************************************************)
(* C20.  An operation on one instance changes no other instance's list or  *)
(* version; the message an instance enqueues names that instance, and the  *)
(* consumer and the dead-letter handler report to the instance named in    *)
(* the message, which is the only instance that holds the item.            *)
(***************************************************************************)
Only(c) ==
    \A d \in Coordinators \ {c} : queue'[d] = queue[d] /\ version'[d] = version[d]

TaskStep(tk) ==
    \/ ProcessWorkStart(tk)
    \/ ProcessWorkCall(tk)
    \/ \E t1 \in 0..MaxTime : DirectReturn(tk, t1)
    \/ \E e \in ErrorMessages : DirectThrow(tk, e) \/ SendThrow(tk, e)
    \/ SendOk(tk)

\* Every message in flight names the one instance whose list may hold its item.
Routed ==
    \A m \in BagToSet(workQueue) \cup BagToSet(consuming) \cup BagToSet(dlq) :
        \A d \in Coordinators \ {m.body.coordinatorId} : m.body.workId \notin Ids(queue[d])

C20_InstancesAreIsolated ==
    [][/\ \A c \in Coordinators :
             (\E m \in Messages, d \in Delays, mode \in Modes : Submit(c, ModelCap, m, d, mode))
                 => Only(c)
       /\ \A tk \in BagToSet(tasks) : TaskStep(tk) => Only(tk.coord)
       /\ \A tk \in BagToSet(tasks) :
             SendOk(tk) =>
                 \A m \in BagToSet(workQueue') :
                     CopiesIn(m, workQueue') > CopiesIn(m, workQueue)
                         => (m.body.coordinatorId = tk.coord /\ m.body.workId = tk.workId)
       /\ \A r \in BagToSet(consuming) :
             (ConsumerReport(r) \/ ConsumerReportThrow(r, TRUE)) => Only(r.body.coordinatorId)
       /\ \A m \in BagToSet(dlq) : DlqReport(m) => Only(m.body.coordinatorId)
       /\ Routed']_vars

\* Each of two instances holds its own item, completed by a report of the
\* consumer of the shared queue.
C20_Witness ==
    \A c \in Coordinators :
        /\ Len(queue[c]) = 1
        /\ queue[c][1].status = "completed"
        /\ queue[c][1].result # <<>>
        /\ Len(queue[c][1].timestamps) = 4
        /\ queue[c][1].timestamps[2].tag = <<2, "queueEnqueued">>

(***************************************************************************)
(* C21.  The status of an item becomes completed only from processing, and *)
(* failed only from processing or in the catch block of its own dispatch   *)
(* (the Processor call or the enqueue threw); no step moves a pending item *)
(* straight to completed, and only its own dispatch moves it to failed.    *)
(***************************************************************************)
OwnDispatchThrew(c, id) ==
    \E tk \in BagToSet(tasks) :
        /\ tk.coord = c
        /\ tk.workId = id
        /\ \E e \in ErrorMessages : DirectThrow(tk, e) \/ SendThrow(tk, e)

C21_TerminalOnlyFromProcessing ==
    [][\A c \in Coordinators : \A id \in Kept(c) :
          LET before == ItemOf(queue[c], id).status
              after == ItemOf(queue'[c], id).status
          IN  /\ (after = "completed" /\ before # "completed") => before = "processing"
              /\ (after = "failed" /\ before # "failed")
                    => (before = "processing" \/ OwnDispatchThrew(c, id))]_vars

(***************************************************************************)
(* C22.  In queue mode the processing status and the queueEnqueued entry   *)
(* are stored before the message is handed to the delivery queue and the   *)
(* message carries that trail: whenever a message for W is in the queue,   *)
(* with the consumer or in the dead-letter queue, its trail is             *)
(* serverReceived, queueEnqueued and W, if listed, is not stored pending.   *)
(***************************************************************************)
InFlightMessages == BagToSet(workQueue) \cup BagToSet(consuming) \cup BagToSet(dlq)

EnqueuedTrail == <<<<1, "serverReceived">>, <<2, "queueEnqueued">>>>

C22_EnqueuedIsNotPending ==
    \A m \in InFlightMessages :
        /\ Tags(m.body.timestamps) = EnqueuedTrail
        /\ ~Unknown(m.body.coordinatorId, m.body.workId)
              => ItemOf(queue[m.body.coordinatorId], m.body.workId).status # "pending"

(***************************************************************************)
(* C23.  The payload stored in an item (message, delay and the trail       *)
(* embedded in the payload) never changes after the item is created.       *)
(***************************************************************************)
C23_PayloadNeverChanges ==
    [][\A c \in Coordinators : \A id \in Kept(c) :
          ItemOf(queue'[c], id).payload = ItemOf(queue[c], id).payload]_vars

(***************************************************************************)
(* C23, amended.  The message and the delay of a stored payload never      *)
(* change.  The trail embedded in the payload is the array of the item's   *)
(* own trail until a report replaces the latter: the dispatch entry        *)
(* (directSend or queueEnqueued) that processWork appends is stored in     *)
(* both, and the embedded trail is never more than serverReceived followed *)
(* by dispatch entries.  A report leaves the payload of the item it finds  *)
(* as it is stored.                                                        *)
(***************************************************************************)
DispatchNames == {"directSend-rpc", "queueEnqueued"}

EmbeddedTrailOK(item) ==
    LET ts == item.payload.timestamps
    IN  /\ Len(ts) >= 1
        /\ ts[1].tag = <<1, "serverReceived">>
        /\ \A k \in 2..Len(ts) : ts[k].tag[1] = k /\ ts[k].tag[2] \in DispatchNames
        /\ item.aliased => ts = item.timestamps

PayloadKept(c, workId) ==
    ~Unknown(c, workId)
        => ItemOf(queue'[c], workId).payload = ItemOf(queue[c], workId).payload

C23_PayloadFollowsDispatch ==
    [][/\ \A c \in Coordinators : \A id \in Kept(c) :
             /\ ItemOf(queue'[c], id).payload.message = ItemOf(queue[c], id).payload.message
             /\ ItemOf(queue'[c], id).payload.delay = ItemOf(queue[c], id).payload.delay
       /\ \A c \in Coordinators : \A k \in 1..Len(queue'[c]) : EmbeddedTrailOK(queue'[c][k])
       /\ \A tk \in BagToSet(tasks) :
             (ProcessWorkStart(tk) /\ Dispatchable(tk.queue, tk.workId))
                 => LET item == ItemOf(queue'[tk.coord], tk.workId)
                    IN  /\ item.payload.timestamps = item.timestamps
                        /\ item.timestamps =
                               Append(TaskItem(tk).timestamps,
                                      [tag |-> <<Len(TaskItem(tk).timestamps) + 1,
                                                 DispatchTag(tk.mode)>>,
                                       time |-> now])
       /\ \A tk \in BagToSet(tasks) :
             (\E t1 \in 0..MaxTime : DirectReturn(tk, t1)) => PayloadKept(tk.coord, tk.workId)
       /\ \A r \in BagToSet(consuming) :
             (ConsumerReport(r) \/ ConsumerReportThrow(r, TRUE))
                 => PayloadKept(r.body.coordinatorId, r.body.workId)
       /\ \A m \in BagToSet(dlq) :
             DlqReport(m) => PayloadKept(m.body.coordinatorId, m.body.workId)]_vars

\* A completed item whose payload holds the dispatch entry next to serverReceived.
C23_Witness ==
    \E k \in 1..Len(queue[MainCoordinator]) :
        /\ queue[MainCoordinator][k].status = "completed"
        /\ Len(queue[MainCoordinator][k].payload.timestamps) = 2
        /\ Len(queue[MainCoordinator][k].timestamps) = 4

(***************************************************************************)
(* Reports posted by a caller with a trail of its own: workResultSchema    *)
(* accepts any array of {tag, time} entries, of any length.                *)
(***************************************************************************)
ShortTrail == <<[tag |-> <<1, "serverReceived">>, time |-> 0]>>

TrailBodies ==
    [result : {<<>>}, error : {<<>>, <<"boom">>},
     timestamps : {<<ShortTrail>>, <<SampleResult.timestamps>>}]

CallerPostsTrail ==
    \E w \in ReportIds, body \in TrailBodies : PostResult(MainCoordinator, w, body)

NextTrails ==
    \/ Tick
    \/ CallerSubmitsSequentially
    \/ System
    \/ CallerPostsTrail

SpecTrails == Init /\ [][NextTrails]_vars

(***************************************************************************)
(* C24.  timeTaken always reflects the item's current trail: an item that  *)
(* has timeTaken has a trail of at least 2 entries and timeTaken is the    *)
(* last time minus the first time of that trail; in particular no value    *)
(* computed from a replaced trail survives.                                *)
(***************************************************************************)
C24_TimeTakenOfCurrentTrail ==
    \A c \in Coordinators : \A k \in 1..Len(queue[c]) :
        LET item == queue[c][k]
        IN  item.timeTaken # <<>>
                => /\ Len(item.timestamps) >= 2
                   /\ item.timeTaken[1] =
                          Last(item.timestamps).time - item.timestamps[1].time

(***************************************************************************)
(* C25.  An item's trail only grows by appending while the item is being   *)
(* dispatched, it is replaced wholesale at most once in the item's life,   *)
(* and every replacement trail has the item's previous trail as a prefix.  *)
(* aliased is TRUE exactly while updateWorkResult has not yet assigned a   *)
(* reported trail to the item.                                             *)
(***************************************************************************)
IsPrefix(s, t) == Len(s) <= Len(t) /\ \A k \in 1..Len(s) : s[k] = t[k]

C25_TrailGrowsReplacedOnce ==
    [][\A c \in Coordinators : \A id \in Kept(c) :
          LET old == ItemOf(queue[c], id)
              new == ItemOf(queue'[c], id)
          IN  new.timestamps # old.timestamps
                  => /\ IsPrefix(old.timestamps, new.timestamps)
                     /\ old.aliased]_vars

(***************************************************************************)
(* C26.  For a queue-mode item that completes, the trail stored by the     *)
(* coordinator records every hand-off in order: serverReceived,            *)
(* queueEnqueued, consumerPickedUp, processingStarted,                     *)
(* processingCompleted.                                                    *)
(***************************************************************************)
QueueTrail ==
    <<<<1, "serverReceived">>, <<2, "queueEnqueued">>, <<3, "consumerPickedUp">>,
      <<4, "processingStarted">>, <<5, "processingCompleted">>>>

C26_QueueTrailHasPickUp ==
    [][\A r \in BagToSet(consuming) :
          (ConsumerReport(r) /\ ~Unknown(r.body.coordinatorId, r.body.workId))
              => Tags(ItemOf(queue'[r.body.coordinatorId], r.body.workId).timestamps)
                     = QueueTrail]_vars

(***************************************************************************)
(* C27.  For every message of the regular queue the consumer performs      *)
(* exactly one of ack or retry.  A message leaves the regular queue        *)
(* without being redelivered or dead-lettered (ack) only in a step that    *)
(* holds the Processor's result for it and in which the coordinator        *)
(* applies the report of that result.  When processing or reporting throws *)
(* the message is kept (redelivered with one more attempt, or dead-        *)
(* lettered once its retries are used up) and no item gets an error.  No   *)
(* report of the regular path changes an error; the report of the dead-    *)
(* letter path stores the dead-letter error.                               *)
(***************************************************************************)
InRegularQueue == BagCardinality(workQueue) + BagCardinality(consuming)

InRegularQueueNext == BagCardinality(workQueue') + BagCardinality(consuming')

ErrorsUnchanged ==
    \A c \in Coordinators : \A id \in Kept(c) :
        ItemOf(queue'[c], id).error = ItemOf(queue[c], id).error

Redelivered(m) ==
    IF Exhausted(m)
    THEN /\ dlq' = dlq (+) One(m)
         /\ InRegularQueueNext = InRegularQueue - 1
    ELSE /\ BagIn(Retry(m), workQueue')
         /\ dlq' = dlq
         /\ InRegularQueueNext = InRegularQueue

C27_AckOrRetry ==
    [][/\ (InRegularQueueNext < InRegularQueue /\ dlq' = dlq)
             => \E r \in BagToSet(consuming) :
                   /\ consuming' = consuming (-) One(r)
                   /\ workQueue' = workQueue
                   /\ queue'[r.body.coordinatorId]
                          = ReportedQueue(queue[r.body.coordinatorId], r)
       /\ \A m \in BagToSet(workQueue) :
             ConsumerProcessThrow(m)
                 => Redelivered(m) /\ queue' = queue
       /\ \A r \in BagToSet(consuming) :
             ConsumerReportThrow(r, FALSE)
                 => /\ Redelivered([body |-> r.body, attempts |-> r.attempts])
                    /\ queue' = queue
       /\ \A r \in BagToSet(consuming) :
             ConsumerReportThrow(r, TRUE)
                 => /\ Redelivered([body |-> r.body, attempts |-> r.attempts])
                    /\ ErrorsUnchanged
       /\ \A r \in BagToSet(consuming) : ConsumerReport(r) => ErrorsUnchanged
       /\ \A m \in BagToSet(dlq) :
             (DlqReport(m) /\ ~Unknown(m.body.coordinatorId, m.body.workId))
                 => ItemOf(queue'[m.body.coordinatorId], m.body.workId).error
                        = <<DlqError>>]_vars

\* A message that was retried is in the regular queue again, and its item is
\* still processing, without an error.
C27_Witness ==
    \E m \in BagToSet(workQueue) :
        /\ m.attempts >= 1
        /\ ~Unknown(m.body.coordinatorId, m.body.workId)
        /\ ItemOf(queue[m.body.coordinatorId], m.body.workId).status = "processing"
        /\ ItemOf(queue[m.body.coordinatorId], m.body.workId).error = <<>>

(***************************************************************************)
(* C28.  Every message of the dead-letter queue is acknowledged exactly    *)
(* once and never retried, whether or not the report to the coordinator    *)
(* succeeded: a step of the dead-letter branch removes one copy of the     *)
(* message and puts no message in any queue.  When the report fails the    *)
(* stored list is left as it is, and an item that is then in status        *)
(* processing with no message and no dispatch left for it keeps that       *)
(* status in every later step.                                             *)
(***************************************************************************)
Acked(m) ==
    /\ dlq' = dlq (-) One(m)
    /\ workQueue' = workQueue
    /\ consuming' = consuming

Pending(c, workId) ==
    \/ \E tk \in BagToSet(tasks) : tk.coord = c /\ tk.workId = workId
    \/ \E m \in InFlightMessages :
           m.body.coordinatorId = c /\ m.body.workId = workId

Stranded(c, workId) ==
    /\ ~Unknown(c, workId)
    /\ ItemOf(queue[c], workId).status = "processing"
    /\ ~Pending(c, workId)

C28_DeadLetterAckedOnce ==
    [][/\ \A m \in BagToSet(dlq) :
             /\ DlqReport(m) => Acked(m)
             /\ DlqReportThrow(m) => Acked(m) /\ queue' = queue
       /\ \A c \in Coordinators : \A id \in Kept(c) :
             Stranded(c, id) => ItemOf(queue'[c], id).status = "processing"]_vars

(***************************************************************************)
(* Batches larger than the cap of the stored list: the batch schema        *)
(* accepts up to 100 messages and the list keeps 50 items, so a batch may  *)
(* overflow the list by itself.  Here batches of up to MaxBatch messages,  *)
(* alone or after a single submit, meet the cap SequentialCap.             *)
(***************************************************************************)
CallerSubmitsLargeBatch ==
    \E n \in 1..MaxBatch, m \in Messages, d \in Delays, mode \in Modes :
        SubmitBatch(MainCoordinator, SequentialCap, [k \in 1..n |-> m], d, mode)

NextOverflow ==
    \/ Tick
    \/ CallerSubmitsSequentially
    \/ CallerSubmitsLargeBatch
    \/ System
    \/ DeadLetterDropped

SpecOverflow == Init /\ [][NextOverflow]_vars

(***************************************************************************)
(* C29.  submitBatch appends all new items and then truncates once: the    *)
(* stored list afterwards is the last min(cap, old length + k) elements of *)
(* the old list followed by the k new items, one dispatch is started for   *)
(* every created item, all in the requested mode, and every item returned  *)
(* to the caller is in the stored list when the call returns.              *)
(***************************************************************************)
Min(a, b) == IF a < b THEN a ELSE b

BatchReturned == nextId' # nextId /\ response'.kind = "workItems"

AppendedThenTruncated(c, cap) ==
    LET all == queue[c] \o response'.workItems
        n == Min(cap, Len(all))
    IN  queue'[c] = SubSeq(all, Len(all) - n + 1, Len(all))

OneDispatchEach(c) ==
    \E mode \in Modes :
        tasks' = tasks (+) SetToBag(
            {[coord |-> c, workId |-> response'.workItems[k].id, mode |-> mode,
              pc |-> "get", queue |-> queue'[c]] : k \in 1..response'.count})

C29_BatchAppendsTruncatesDispatches ==
    [][BatchReturned
          => /\ response'.count = nextId' - nextId
             /\ AppendedThenTruncated(MainCoordinator, SequentialCap)
             /\ OneDispatchEach(MainCoordinator)
             /\ \A k \in 1..response'.count :
                   response'.workItems[k].id \in Ids(queue'[MainCoordinator])]_vars

(***************************************************************************)
(* C30.  When an instance starts with a stored version equal to            *)
(* COORDINATOR_VERSION, construction changes nothing in storage: the       *)
(* stored list and every field of its items are as before the start, and   *)
(* so is the version; a constructor changes storage only on a version      *)
(* mismatch.                                                               *)
(***************************************************************************)
C30_SameVersionKeepsStorage ==
    [][\A c \in Coordinators :
          (~started[c] /\ started'[c])
              => /\ version[c] = <<COORDINATOR_VERSION>>
                    => (queue'[c] = queue[c] /\ version'[c] = version[c])
                 /\ (queue'[c] # queue[c] \/ version'[c] # version[c])
                    => version[c] # <<COORDINATOR_VERSION>>]_vars

\* An instance has started on the current version and holds the two items that
\* were stored, one of them completed.
C30_Witness ==
    \E c \in Coordinators :
        /\ started[c]
        /\ queue[c] = <<OldItem, [OldItem EXCEPT !.status = "completed"]>>

(***************************************************************************)
(* checkAndMigrateVersion await by await, inside blockConcurrencyWhile:    *)
(* get("version"); on a mismatch deleteAll(), then put("version", ...).    *)
(* The callback ends with the put, or with the get when the versions       *)
(* match, and only then are requests delivered to the instance.  A store   *)
(* with neither list nor version is what deleteAll leaves (and what an     *)
(* instance that never stored anything starts from).                       *)
(***************************************************************************)
Wiped(c) == version[c] = <<>> /\ queue[c] = <<>>

MigrateDeleteAll(c) ==
    /\ ~started[c]
    /\ version[c] # <<COORDINATOR_VERSION>>
    /\ ~Wiped(c)
    /\ queue' = [queue EXCEPT ![c] = <<>>]
    /\ version' = [version EXCEPT ![c] = <<>>]
    /\ UNCHANGED <<tasks, workQueue, consuming, dlq, processCount, now, nextId,
                   manualCalls, dispatched, started, response>>

MigratePutVersion(c) ==
    /\ ~started[c]
    /\ Wiped(c)
    /\ version' = [version EXCEPT ![c] = <<COORDINATOR_VERSION>>]
    /\ started' = [started EXCEPT ![c] = TRUE]
    /\ UNCHANGED <<queue, tasks, workQueue, consuming, dlq, processCount, now, nextId,
                   manualCalls, dispatched, response>>

MigrateVersionMatches(c) ==
    /\ ~started[c]
    /\ version[c] = <<COORDINATOR_VERSION>>
    /\ started' = [started EXCEPT ![c] = TRUE]
    /\ UNCHANGED <<queue, version, tasks, workQueue, consuming, dlq, processCount, now,
                   nextId, manualCalls, dispatched, response>>

ConstructorWipes == \E c \in Coordinators : MigrateDeleteAll(c)

ConstructorStamps == \E c \in Coordinators : MigratePutVersion(c)

ConstructorKeeps == \E c \in Coordinators : MigrateVersionMatches(c)

\* SpecMigration with the constructor taken one storage operation at a time.
NextConstruction ==
    \/ ConstructorWipes
    \/ ConstructorStamps
    \/ ConstructorKeeps
    \/ Tick
    \/ CallerSubmitsSequentially
    \/ System

SpecConstruction == InitStored /\ [][NextConstruction]_vars

(***************************************************************************)
(* C31.  The version check and reset run in the constructor with           *)
(* concurrency blocked: from the start of the version check to the write   *)
(* of the version marker no request handler reads or writes the storage of *)
(* the instance.  While an instance has not completed its constructor its  *)
(* list and version are changed by the steps of the migration only, no     *)
(* dispatch holds or reads its list, and no request to it is answered; an  *)
(* instance that serves requests has the version COORDINATOR_VERSION, so   *)
(* none sees a store that is wiped and not yet stamped.                    *)
(***************************************************************************)
C31_NoRequestDuringMigration ==
    [][\A c \in Coordinators :
          /\ ~started[c]
                => /\ (queue'[c] # queue[c] \/ version'[c] # version[c])
                          => (MigrateDeleteAll(c) \/ MigratePutVersion(c))
                   /\ \A tk \in BagToSet(tasks') : tk.coord # c
                   /\ c = MainCoordinator => (response' = response /\ nextId' = nextId)
          /\ (started'[c] /\ ~started[c]) => version'[c] = <<COORDINATOR_VERSION>>
          /\ started[c] => version[c] = <<COORDINATOR_VERSION>>]_vars

\* An instance whose constructor has stamped its store has served a submit,
\* while another holds neither list nor version and is not yet stamped.
C31_Witness ==
    /\ started[MainCoordinator]
    /\ Ids(queue[MainCoordinator]) = {1}
    /\ \E c \in Coordinators : ~started[c] /\ Wiped(c)

(***************************************************************************)
(* C32.  A manual re-trigger (POST /process/:workId) always dispatches in  *)
(* queue mode, whatever mode the item was submitted with: the dispatch it  *)
(* starts is a queue-mode dispatch, and a queue-mode dispatch of a pending *)
(* item appends queueEnqueued, never calls the Processor, and hands the    *)
(* item to the delivery queue.                                             *)
(***************************************************************************)
C32_ManualDispatchEnqueues ==
    [][/\ manualCalls' # manualCalls
             => /\ \E w \in 1..MaxItems :
                      tasks' = tasks (+) One(
                          [coord |-> MainCoordinator, workId |-> w, mode |-> "queue",
                           pc |-> "get", queue |-> queue[MainCoordinator]])
                /\ queue' = queue
                /\ workQueue' = workQueue
       /\ \A tk \in BagToSet(tasks) :
             tk.mode = "queue"
                 => /\ tk.pc # "rpc"
                    /\ (ProcessWorkStart(tk) /\ Dispatchable(tk.queue, tk.workId))
                          => LET item == ItemOf(queue'[tk.coord], tk.workId)
                             IN  /\ item.status = "processing"
                                 /\ Last(item.timestamps).tag[2] = "queueEnqueued"
                    /\ ProcessWorkCall(tk)
                          => /\ BagIn([tk EXCEPT !.pc = "send"], tasks')
                             /\ processCount' = processCount
                    /\ SendOk(tk)
                          => /\ \E m \in BagToSet(workQueue') :
                                   /\ m.body.workId = tk.workId
                                   /\ Last(m.body.timestamps).tag[2] = "queueEnqueued"
                                   /\ CopiesIn(m, workQueue') = CopiesIn(m, workQueue) + 1
                             /\ processCount' = processCount
                             /\ queue' = queue]_vars

\* The item was submitted in direct mode (its direct dispatch is still in
\* flight), was stored as pending again, and a manual re-trigger has put it in
\* the delivery queue with a queueEnqueued entry.
C32_Witness ==
    /\ manualCalls = 1
    /\ \E m \in BagToSet(workQueue) : \E tk \in BagToSet(tasks) :
          /\ tk.mode = "direct"
          /\ tk.workId = m.body.workId
          /\ Last(m.body.timestamps).tag[2] = "queueEnqueued"

(***************************************************************************)
(* The simpler coordinator (durable-objects/coordinator-do): items without *)
(* trail, a list of the last 10, dispatch through the queue only, and an   *)
(* updateWorkResult that takes (workId, result, error).  Reports reach it  *)
(* through POST /result/:workId; the callers here post every body the      *)
(* result schema accepts, which covers what the queue consumer posts.      *)
(***************************************************************************)
SimpleWorkItem(id, message, delay, t) ==
    [id        |-> id,
     payload   |-> [message |-> message, delay |-> delay],
     status    |-> "pending",
     createdAt |-> t,
     updatedAt |-> t,
     result    |-> <<>>,
     error     |-> <<>>]

SubmitSimple(c, cap, message, delay) ==
    /\ GateOpen(c)
    /\ nextId < ItemBudget
    /\ LET item == SimpleWorkItem(nextId + 1, message, delay, now)
       IN  /\ queue' = [queue EXCEPT ![c] = Truncate(Append(@, item), cap)]
           /\ tasks' = tasks (+) One(
                  [coord |-> c, workId |-> item.id, mode |-> "queue", pc |-> "get",
                   queue |-> queue'[c]])
           /\ response' = WorkItemResponse(item)
    /\ nextId' = nextId + 1
    /\ UNCHANGED <<started, version, workQueue, consuming, dlq, processCount, now,
                   manualCalls, dispatched>>

ProcessWorkStartSimple(tk) ==
    /\ BagIn(tk, tasks)
    /\ tk.pc = "get"
    /\ IF ~Dispatchable(tk.queue, tk.workId)
       THEN /\ tasks' = tasks (-) One(tk)
            /\ UNCHANGED queue
       ELSE LET k == FindIndex(tk.queue, tk.workId)
                q == [tk.queue EXCEPT ![k] =
                         [@ EXCEPT !.status = "processing", !.updatedAt = now]]
            IN  /\ queue' = [queue EXCEPT ![tk.coord] = q]
                /\ tasks' = (tasks (-) One(tk))
                               (+) One([tk EXCEPT !.queue = q, !.pc = "put"])
    /\ UNCHANGED <<started, response, version, workQueue, consuming, dlq, processCount, now,
                   nextId, manualCalls, dispatched>>

\* WORK_QUEUE.send({workId, payload, coordinatorId: "main-coordinator"})
SendOkSimple(tk) ==
    /\ BagIn(tk, tasks)
    /\ tk.pc = "send"
    /\ GateOpen(tk.coord)
    /\ workQueue' = workQueue
           (+) One([body |-> [workId |-> tk.workId, payload |-> TaskItem(tk).payload,
                              coordinatorId |-> MainCoordinator],
                    attempts |-> 0])
    /\ tasks' = tasks (-) One(tk)
    /\ UNCHANGED <<started, response, queue, version, consuming, dlq, processCount, now,
                   nextId, manualCalls, dispatched>>

\* workItem.result = result is not guarded: a report without result stores
\* undefined, which reads back as no result.
UpdateWorkResultSimple(q, workId, result, error, t) ==
    LET i == FindIndex(q, workId)
    IN  IF i = 0 THEN q
        ELSE IF Truthy(error)
        THEN [q EXCEPT ![i] = [@ EXCEPT !.status = "failed", !.error = error,
                                        !.updatedAt = t]]
        ELSE [q EXCEPT ![i] = [@ EXCEPT !.status = "completed", !.result = result,
                                        !.updatedAt = t]]

PostResultSimple(c, workId, body) ==
    /\ GateOpen(c)
    /\ queue' = [queue EXCEPT ![c] =
           UpdateWorkResultSimple(@, workId, body.result, body.error, now)]
    /\ response' = SuccessResponse
    /\ UNCHANGED <<version, tasks, workQueue, consuming, dlq, processCount, now, nextId,
                   manualCalls, dispatched, started>>

CallerSubmitsSimple ==
    \E m \in Messages, d \in Delays : SubmitSimple(MainCoordinator, ModelCap, m, d)

SimpleDispatchStarts == \E tk \in BagToSet(tasks) : ProcessWorkStartSimple(tk)

SimpleEnqueueReturns == \E tk \in BagToSet(tasks) : SendOkSimple(tk)

CallerPostsResultSimple ==
    \E w \in ReportIds, body \in ReportBodies : PostResultSimple(MainCoordinator, w, body)

NextSimple ==
    \/ Tick
    \/ CallerSubmitsSimple
    \/ SimpleDispatchStarts
    \/ DispatchCalls
    \/ SimpleEnqueueReturns
    \/ EnqueueThrows
    \/ CallerPostsResultSimple

SpecSimple == Init /\ [][NextSimple]_vars

(***************************************************************************)
(* C33.  reportResult with neither an error nor a result sets the item's   *)
(* status to completed and leaves the item's result as it is: a present    *)
(* result keeps its value and an absent result stays absent.  This is      *)
(* stated of both coordinators.                                            *)
(***************************************************************************)
EmptyReport == [result |-> <<>>, error |-> <<>>, timestamps |-> <<>>]

\* The items of the richer coordinator carry a trail.
WithTrails(q) == \A k \in 1..Len(q) : "timestamps" \in DOMAIN q[k]

EmptyReportServed(c, w) ==
    IF WithTrails(queue[c])
    THEN PostResult(c, w, EmptyReport)
    ELSE PostResultSimple(c, w, EmptyReport)

C33_EmptyReportKeepsResult ==
    [][\A w \in ReportIds :
          (EmptyReportServed(MainCoordinator, w) /\ ~Unknown(MainCoordinator, w))
              => /\ ItemOf(queue'[MainCoordinator], w).status = "completed"
                 /\ ItemOf(queue'[MainCoordinator], w).result
                        = ItemOf(queue[MainCoordinator], w).result]_vars

(***************************************************************************)
(* C34.  In every reachable state of a coordinator instance the stored     *)
(* list holds at most cap items, right after a batch larger than the cap   *)
(* and after every write of the list by a dispatch, by a dispatch failure  *)
(* path or by a report.  (Under SpecOverflow the cap is SequentialCap.)    *)
(***************************************************************************)
C34_ListWithinCap ==
    \A c \in Coordinators : Len(queue[c]) <= SequentialCap

\* Two items were created, the list is full and holds the newest only, and a
\* report or a failure path has written the list since.
C34_Witness ==
    /\ nextId = MaxItems
    /\ Len(queue[MainCoordinator]) = SequentialCap
    /\ Ids(queue[MainCoordinator]) = {MaxItems}
    /\ ItemOf(queue[MainCoordinator], MaxItems).status \in Terminal
====
